---- MODULE Spec2Model ----
(***************************************************************************)
(* Model of src/src/helpers.ts (vs-deploy): filterFilesByPackage,          *)
(* toStringSafe, toRelativePath and log.                                   *)
(*                                                                         *)
(* Strings are sequences of one-character strings, so that Path.join,      *)
(* Path.isAbsolute, indexOf, substr and trim are computed and not assumed. *)
(* JavaScript values are records [t |-> type, v |-> String(value)].        *)
(* Path is Node's POSIX implementation.                                    *)
(***************************************************************************)
EXTENDS Integers, Sequences, FiniteSets, TLC

\* ---------------------------------------------------------------- bounds
MaxFiles == 2
MaxIncl == 2
MaxExcl == 1
MaxLog == 1

\* ------------------------------------------------------- string literals
S_empty == <<>>
S_a == <<"a">>
S_dota == <<".", "/", "a">>
S_w == <<"/", "w">>
S_wa == <<"/", "w", "/", "a">>
S_xa == <<"/", "x", "/", "a">>
S_sp == <<" ">>
S_dot == <<".">>
S_dotdot == <<".", ".">>

\* ---------------------------------------------------- JavaScript values
Str(s) == [t |-> "string", v |-> s]
Null == [t |-> "null", v |-> <<"n", "u", "l", "l">>]
Undefined == [t |-> "undefined", v |-> <<"u", "n", "d", "e", "f", "i", "n", "e", "d">>]
Num0 == [t |-> "number", v |-> <<"0">>]
Num5 == [t |-> "number", v |-> <<"5">>]
False == [t |-> "boolean", v |-> <<"f", "a", "l", "s", "e">>]

\* ToBoolean(val): null, undefined, "", 0 and false are falsy
Truthy(val) ==
    CASE val.t = "null" -> FALSE
      [] val.t = "undefined" -> FALSE
      [] val.t = "string" -> val.v # <<>>
      [] val.t = "number" -> val.v # <<"0">>
      [] val.t = "boolean" -> val.v # <<"f", "a", "l", "s", "e">>
      [] OTHER -> TRUE

\* '' + val
Concat(val) == Str(val.v)

\* toStringSafe(str, defValue = ''): the default parameter replaces an
\* undefined (or missing) second argument only
toStringSafe(str, defArg) ==
    LET defValue == IF defArg = Undefined THEN Str(S_empty) ELSE defArg
        s1 == IF ~Truthy(str) THEN Str(S_empty) ELSE str
        s2 == Concat(s1)
    IN  IF ~Truthy(s2) THEN defValue ELSE s2

\* ------------------------------------------------------ Path (POSIX)
isAbsolute(p) == Len(p) > 0 /\ p[1] = "/"

\* p.split('/')
RECURSIVE SplitSep(_, _)
SplitSep(p, cur) ==
    IF p = <<>> THEN <<cur>>
    ELSE IF Head(p) = "/" THEN <<cur>> \o SplitSep(Tail(p), <<>>)
    ELSE SplitSep(Tail(p), Append(cur, Head(p)))

\* normalizeString: drops empty and "." segments, resolves ".."
RECURSIVE normalizeString(_, _, _)
normalizeString(segs, acc, allowAboveRoot) ==
    IF segs = <<>> THEN acc
    ELSE LET s == Head(segs)
             acc2 == IF s = <<>> \/ s = S_dot THEN acc
                     ELSE IF s = S_dotdot
                          THEN IF acc # <<>> /\ acc[Len(acc)] # S_dotdot
                               THEN SubSeq(acc, 1, Len(acc) - 1)
                               ELSE IF allowAboveRoot THEN Append(acc, s) ELSE acc
                          ELSE Append(acc, s)
         IN  normalizeString(Tail(segs), acc2, allowAboveRoot)

\* segs.join('/')
RECURSIVE JoinSep(_)
JoinSep(segs) ==
    IF segs = <<>> THEN <<>>
    ELSE IF Len(segs) = 1 THEN segs[1]
    ELSE segs[1] \o <<"/">> \o JoinSep(Tail(segs))

\* Path.normalize(p)
PathNormalize(p) ==
    IF p = <<>> THEN S_dot
    ELSE LET abs == isAbsolute(p)
             trailing == p[Len(p)] = "/"
             n0 == JoinSep(normalizeString(SplitSep(p, <<>>), <<>>, ~abs))
             n1 == IF n0 = <<>> /\ ~abs THEN S_dot ELSE n0
             n2 == IF n1 # <<>> /\ trailing THEN Append(n1, "/") ELSE n1
         IN  IF abs THEN <<"/">> \o n2 ELSE n2

\* Path.join(a, b): a TypeError when an argument is not a string
PathJoin_lenient(a, b) ==
    LET as == IF a.t = "string" THEN a.v ELSE <<>>
        joined == IF as = <<>> THEN b
                  ELSE IF b = <<>> THEN as
                  ELSE as \o <<"/">> \o b
    IN  [threw |-> FALSE, v |-> PathNormalize(joined)]

PathJoin(a, b) ==
    IF a.t # "string" THEN [threw |-> TRUE, v |-> <<>>]
    ELSE LET joined == IF a.v = <<>> THEN b
                       ELSE IF b = <<>> THEN a.v
                       ELSE a.v \o <<"/">> \o b
         IN  [threw |-> FALSE, v |-> PathNormalize(joined)]
\* ------------------------------------------------- filterFilesByPackage
\* pkg.files / pkg.exclude: [present |-> BOOLEAN, items |-> array of values]
Absent == [present |-> FALSE, items |-> <<>>]
Arr(items) == [present |-> TRUE, items |-> items]

\* list.map(x => toStringSafe(x)).filter(x => x), [] when the list is absent
NormalizeFilters_keepEmpty(list) ==
    IF ~list.present THEN <<>>
    ELSE [i \in 1..Len(list.items) |-> toStringSafe(list.items[i], Undefined).v]

NormalizeFilters(list) ==
    IF ~list.present THEN <<>>
    ELSE LET mapped == [i \in 1..Len(list.items) |-> toStringSafe(list.items[i], Undefined)]
             kept == SelectSeq(mapped, Truthy)
         IN  [i \in 1..Len(kept) |-> kept[i].v]

\* the exclude loop: doExclude
DoExclude(ff, excludeFilters) ==
    \E j \in 1..Len(excludeFilters) : excludeFilters[j] = ff

\* the include loop of the callback, from index i on; x is already resolved
RECURSIVE ScanIncludes_rawff(_, _, _, _, _)
ScanIncludes_rawff(x, fileFilters, excludeFilters, root, i) ==
    IF i > Len(fileFilters) THEN "drop"
    ELSE LET ff0 == fileFilters[i]
             ff == IF ~isAbsolute(ff0) THEN PathJoin(root, ff0)
                   ELSE [threw |-> FALSE, v |-> ff0]
         IN  IF ff.threw THEN "throw"
             ELSE IF x = ff.v
                  THEN IF DoExclude(ff0, excludeFilters) THEN "drop" ELSE "keep"
                  ELSE ScanIncludes_rawff(x, fileFilters, excludeFilters, root, i + 1)

RECURSIVE ScanIncludes(_, _, _, _, _)
ScanIncludes(x, fileFilters, excludeFilters, root, i) ==
    IF i > Len(fileFilters) THEN "drop"
    ELSE LET ff0 == fileFilters[i]
             ff == IF ~isAbsolute(ff0) THEN PathJoin(root, ff0)
                   ELSE [threw |-> FALSE, v |-> ff0]
         IN  IF ff.threw THEN "throw"
             ELSE IF x = ff.v
                  THEN IF DoExclude(ff.v, excludeFilters) THEN "drop" ELSE "keep"
                  ELSE ScanIncludes(x, fileFilters, excludeFilters, root, i + 1)

\* the callback of allFiles.filter: res is its outcome, x its local x at exit
FilterCallback(x0, fileFilters, excludeFilters, root) ==
    IF Len(fileFilters) < 1 THEN [res |-> "keep", x |-> x0]
    ELSE LET x == IF ~isAbsolute(x0) THEN PathJoin(root, x0)
                  ELSE [threw |-> FALSE, v |-> x0]
         IN  IF x.threw THEN [res |-> "throw", x |-> x0]
             ELSE [res |-> ScanIncludes(x.v, fileFilters, excludeFilters, root, 1),
                   x |-> x.v]

\* Array.prototype.filter from index k on: keeps the elements of the array
\* for which the callback returns true; an exception of the callback ends it
RECURSIVE ArrayFilter_pushLocal(_, _, _, _, _)
ArrayFilter_pushLocal(arr, k, fileFilters, excludeFilters, root) ==
    IF k > Len(arr) THEN [threw |-> FALSE, value |-> <<>>]
    ELSE LET r == FilterCallback(arr[k], fileFilters, excludeFilters, root)
             rest == ArrayFilter_pushLocal(arr, k + 1, fileFilters, excludeFilters, root)
         IN  IF r.res = "throw" \/ rest.threw THEN [threw |-> TRUE, value |-> <<>>]
             ELSE [threw |-> FALSE,
                   value |-> IF r.res = "keep" THEN <<r.x>> \o rest.value
                             ELSE rest.value]

RECURSIVE ArrayFilter(_, _, _, _, _)
ArrayFilter(arr, k, fileFilters, excludeFilters, root) ==
    IF k > Len(arr) THEN [threw |-> FALSE, value |-> <<>>]
    ELSE LET r == FilterCallback(arr[k], fileFilters, excludeFilters, root)
             rest == ArrayFilter(arr, k + 1, fileFilters, excludeFilters, root)
         IN  IF r.res = "throw" \/ rest.threw THEN [threw |-> TRUE, value |-> <<>>]
             ELSE [threw |-> FALSE,
                   value |-> IF r.res = "keep" THEN <<arr[k]>> \o rest.value
                             ELSE rest.value]

\* filterFilesByPackage(allFiles, pkg) with vscode.workspace.rootPath = root;
\* allFiles and pkg in the result are the argument objects at exit
filterFilesByPackage_skipFirst(allFiles, pkg, root) ==
    LET r == ArrayFilter(allFiles, 2, NormalizeFilters(pkg.files),
                         NormalizeFilters(pkg.exclude), root)
    IN  [threw |-> r.threw, value |-> r.value, allFiles |-> allFiles, pkg |-> pkg]

filterFilesByPackage(allFiles, pkg, root) ==
    LET fileFilters == NormalizeFilters(pkg.files)
        excludeFilters == NormalizeFilters(pkg.exclude)
        r == ArrayFilter(allFiles, 1, fileFilters, excludeFilters, root)
    IN  [threw |-> r.threw, value |-> r.value, allFiles |-> allFiles, pkg |-> pkg]
\* ------------------------------------------------------ log, toRelativePath
\* log(msg): one line on the console when msg is truthy
log(console, msg) ==
    IF Truthy(msg) THEN Append(console, msg.v) ELSE console

\* '[ERROR] helpers.toRelativePath(): ' + e
ErrorMessage(e) == Str(<<"[ERROR] helpers.toRelativePath(): ", e>>)

\* str.indexOf(sub) = 0
IndexOfIsZero(str, sub) ==
    Len(sub) <= Len(str) /\ SubSeq(str, 1, Len(sub)) = sub

\* str.substr(n)
Substr(str, n) == SubSeq(str, n + 1, Len(str))

\* the body of the try block: the value assigned to result, or the exception
\* exists = FS.existsSync(root); stat = what FS.lstatSync(root) does
TryRelativePath(path, root, exists, stat) ==
    IF ~Truthy(root) \/ ~exists THEN [exc |-> "", result |-> False]
    ELSE IF stat = "throws" THEN [exc |-> "Error", result |-> False]
    ELSE IF stat # "dir" THEN [exc |-> "", result |-> False]
    ELSE IF path.t # "string" THEN [exc |-> "TypeError", result |-> False]
    ELSE IF IndexOfIsZero(path.v, root.v)
         THEN [exc |-> "",
               result |-> Str(JoinSep(SplitSep(Substr(path.v, Len(root.v)), <<>>)))]
         ELSE [exc |-> "", result |-> False]

\* toRelativePath(path): try { ... } catch (e) { log(...) } return result
toRelativePath_nocatch(path, root, exists, stat, console) ==
    LET t == TryRelativePath(path, root, exists, stat)
    IN  IF t.exc # ""
        THEN [outcome |-> "threw", value |-> False, console |-> console]
        ELSE [outcome |-> "returned", value |-> t.result, console |-> console]

toRelativePath(path, root, exists, stat, console) ==
    LET t == TryRelativePath(path, root, exists, stat)
    IN  IF t.exc # ""
        THEN [outcome |-> "returned", value |-> t.result,
              console |-> log(console, ErrorMessage(t.exc))]
        ELSE [outcome |-> "returned", value |-> t.result, console |-> console]

\* ------------------------------------------------------------ input sets
SeqsUpTo(S, n) == UNION {[1..k -> S] : k \in 0..n}

Roots == {Undefined, Str(S_w)}
Files == {S_empty, S_dota, S_wa}
InclVals == {Null, Str(S_a), Str(S_wa), Str(S_w), Str(S_sp)}
ExclVals == {Str(S_a), Str(S_wa)}
FileLists == SeqsUpTo(Files, MaxFiles)
InclLists == {Absent} \cup {Arr(l) : l \in SeqsUpTo(InclVals, MaxIncl)}
ExclLists == {Absent} \cup {Arr(l) : l \in SeqsUpTo(ExclVals, MaxExcl)}
Values == {Null, Undefined, Num0, Num5, False, Str(S_empty), Str(S_a), Str(S_sp), Str(S_wa)}
RelPaths == {Null, Num5, Str(S_a), Str(S_w), Str(S_wa), Str(S_xa)}
StatResults == {"dir", "file", "throws"}

\* ------------------------------------------------------------- the state
VARIABLES op, rootPath, args, after, ret, console, consoleAtCall

vars == <<op, rootPath, args, after, ret, console, consoleAtCall>>

NoCall == [none |-> TRUE]

Init ==
    /\ op = "idle"
    /\ rootPath = Undefined
    /\ args = NoCall
    /\ after = NoCall
    /\ ret = NoCall
    /\ console = <<>>
    /\ consoleAtCall = <<>>

\* the host opens or closes a workspace folder: vscode.workspace.rootPath
WorkspaceChange ==
    \E root \in Roots :
        /\ op = "idle"
        /\ root # rootPath
        /\ rootPath' = root
        /\ op' = "idle"
        /\ args' = NoCall
        /\ after' = NoCall
        /\ ret' = NoCall
        /\ consoleAtCall' = console
        /\ UNCHANGED console

\* first is the list the caller started from (F itself in a first call)
DoFilter(F, P, name, first) ==
    LET r == filterFilesByPackage(F, P, rootPath)
    IN  /\ op' = name
        /\ args' = [allFiles |-> F, pkg |-> P, first |-> first]
        /\ after' = [allFiles |-> r.allFiles, pkg |-> r.pkg]
        /\ ret' = [threw |-> r.threw, value |-> r.value]
        /\ consoleAtCall' = console
        /\ UNCHANGED <<rootPath, console>>

\* a call filterFilesByPackage(allFiles, pkg)
CallFilter ==
    /\ op = "idle"
    /\ \E F \in FileLists, inc \in InclLists, exc \in ExclLists :
           DoFilter(F, [files |-> inc, exclude |-> exc], "filter", F)

\* a call filterFilesByPackage(previous result, same pkg)
CallFilterAgain ==
    /\ op \in {"filter", "refilter"}
    /\ ~ret.threw
    /\ DoFilter(ret.value, after.pkg, "refilter", args.first)

\* a call toStringSafe(str, defValue)
CallToStringSafe ==
    \E str \in Values, defValue \in Values :
        /\ op = "idle"
        /\ op' = "toStringSafe"
        /\ args' = [str |-> str, defValue |-> defValue]
        /\ after' = args'
        /\ ret' = toStringSafe(str, defValue)
        /\ consoleAtCall' = console
        /\ UNCHANGED <<rootPath, console>>

\* a call toRelativePath(path) under some state of the file system
CallToRelativePath ==
    \E path \in RelPaths, exists \in BOOLEAN, stat \in StatResults :
        LET r == toRelativePath(path, rootPath, exists, stat, console)
        IN  /\ op = "idle"
            /\ Len(console) < MaxLog
            /\ op' = "toRelativePath"
            /\ args' = [path |-> path, exists |-> exists, stat |-> stat]
            /\ after' = args'
            /\ ret' = [outcome |-> r.outcome, value |-> r.value]
            /\ consoleAtCall' = console
            /\ console' = r.console
            /\ UNCHANGED rootPath

\* the synchronous call is over: the caller has consumed the result
CallerContinues ==
    /\ op # "idle"
    /\ op' = "idle"
    /\ args' = NoCall
    /\ after' = NoCall
    /\ ret' = NoCall
    /\ consoleAtCall' = console
    /\ UNCHANGED <<rootPath, console>>

Next ==
    \/ WorkspaceChange
    \/ CallerContinues
    \/ CallFilter
    \/ CallFilterAgain
    \/ CallToStringSafe
    \/ CallToRelativePath

Spec == Init /\ [][Next]_vars

\* the calls of filterFilesByPackage alone
NextFilter ==
    \/ WorkspaceChange
    \/ CallerContinues
    \/ CallFilter
    \/ CallFilterAgain

SpecFilter == Init /\ [][NextFilter]_vars

\* the calls of toStringSafe and toRelativePath alone
NextHelpers ==
    \/ WorkspaceChange
    \/ CallerContinues
    \/ CallToStringSafe
    \/ CallToRelativePath

SpecHelpers == Init /\ [][NextHelpers]_vars
\* ============================================================== claims
IsFilterCall == op \in {"filter", "refilter"}
RootSet == rootPath.t = "string"

\* the entries of a raw include / exclude list that are non-empty strings
RECURSIVE NonEmptyOf(_)
NonEmptyOf(items) ==
    IF items = <<>> THEN <<>>
    ELSE IF Truthy(Head(items)) THEN <<Head(items).v>> \o NonEmptyOf(Tail(items))
    ELSE NonEmptyOf(Tail(items))

Inc == IF args.pkg.files.present THEN NonEmptyOf(args.pkg.files.items) ELSE <<>>
Exc == IF args.pkg.exclude.present THEN NonEmptyOf(args.pkg.exclude.items) ELSE <<>>

\* the absolute form of p under the current workspace root
Abs(p) == IF isAbsolute(p) THEN p ELSE PathJoin(rootPath, p).v

InResult(x) == \E k \in 1..Len(ret.value) : ret.value[k] = x

RECURSIVE IsSubSeq(_, _)
IsSubSeq(s, t) ==
    IF s = <<>> THEN TRUE
    ELSE IF t = <<>> THEN FALSE
    ELSE IF Head(s) = Head(t) THEN IsSubSeq(Tail(s), Tail(t))
    ELSE IsSubSeq(s, Tail(t))

Count(x, s) == Cardinality({k \in 1..Len(s) : s[k] = x})

\* C1: with a workspace root and a non-empty include list, a file x of F is
\* in the result iff Abs(x) equals the absolute form of some include entry
\* and no exclude entry's absolute form equals that include's absolute form.
C1_ExactMatchLaw ==
    (IsFilterCall /\ RootSet /\ Len(Inc) >= 1) =>
        /\ ~ret.threw
        /\ \A k \in 1..Len(args.allFiles) :
              LET x == args.allFiles[k]
              IN  InResult(x) <=>
                    \E i \in 1..Len(Inc) :
                        /\ Abs(x) = Abs(Inc[i])
                        /\ \A j \in 1..Len(Exc) : Abs(Exc[j]) # Abs(Inc[i])

\* C2: when the include list is absent or holds no non-empty entry, the
\* call returns the file list element for element, whatever the excludes.
C2_PassThrough ==
    (IsFilterCall /\ Len(Inc) = 0) =>
        (~ret.threw /\ ret.value = args.allFiles)

C2_Witness ==
    /\ op = "filter"
    /\ args.pkg.files.present
    /\ Len(args.pkg.files.items) >= 1
    /\ Len(Inc) = 0
    /\ Len(Exc) >= 1
    /\ Len(args.allFiles) = 2
    /\ \E k \in 1..2 : \E j \in 1..Len(Exc) : Exc[j] = args.allFiles[k]
    /\ ret.value = args.allFiles
\* str.trim() and the package with trimmed, non-empty entries
RECURSIVE TrimLeft(_)
TrimLeft(str) ==
    IF str # <<>> /\ Head(str) = " " THEN TrimLeft(Tail(str)) ELSE str

RECURSIVE TrimRight(_)
TrimRight(str) ==
    IF str # <<>> /\ str[Len(str)] = " "
    THEN TrimRight(SubSeq(str, 1, Len(str) - 1))
    ELSE str

Trim(str) == TrimRight(TrimLeft(str))

RECURSIVE TrimmedOf(_)
TrimmedOf(entries) ==
    IF entries = <<>> THEN <<>>
    ELSE IF Trim(Head(entries)) = <<>> THEN TrimmedOf(Tail(entries))
    ELSE <<Str(Trim(Head(entries)))>> \o TrimmedOf(Tail(entries))

TrimmedPkg == [files |-> Arr(TrimmedOf(Inc)), exclude |-> Arr(TrimmedOf(Exc))]

\* C3: the call gives the same outcome as the call with the package whose
\* include and exclude lists hold the trimmed entries, empty ones removed.
C3_TrimmedNormalization ==
    IsFilterCall =>
        LET r == filterFilesByPackage(args.allFiles, TrimmedPkg, rootPath)
        IN  ret.threw = r.threw /\ ret.value = r.value

\* C4: no empty string of allFiles appears in the result, and an empty
\* candidate never counts as a match of an include entry.
C4_EmptyCandidatesDropped ==
    (IsFilterCall /\ ~ret.threw) =>
        \A k \in 1..Len(ret.value) : ret.value[k] # S_empty

\* C5: the result is a sub-sequence of F (elements unmodified, order kept,
\* equal elements kept all or none), and F and the package are unchanged.
C5_OrderPreservation ==
    IsFilterCall =>
        /\ after.allFiles = args.allFiles
        /\ after.pkg = args.pkg
        /\ ~ret.threw =>
              /\ IsSubSeq(ret.value, args.allFiles)
              /\ \A k \in 1..Len(args.allFiles) :
                    Count(args.allFiles[k], ret.value)
                        \in {0, Count(args.allFiles[k], args.allFiles)}

C5_Witness ==
    /\ op = "filter"
    /\ RootSet
    /\ Len(Inc) >= 1
    /\ Len(args.allFiles) = 2
    /\ args.allFiles[1] # S_dota
    /\ ret.value = <<S_dota>>
    /\ after.allFiles = args.allFiles

\* C6: filtering the result of a call again with the same package and the
\* same root returns that result.
C6_Idempotence ==
    op = "refilter" => (~ret.threw /\ ret.value = args.allFiles)

C6_Witness ==
    /\ op = "refilter"
    /\ Len(Inc) >= 1
    /\ Len(args.first) = 2
    /\ Len(args.allFiles) = 1
    /\ ret.value = args.allFiles

NeedsRoot(x) ==
    \/ ~isAbsolute(x)
    \/ \E i \in 1..Len(Inc) :
          /\ ~isAbsolute(Inc[i])
          /\ \A j \in 1..(i - 1) : Inc[j] # x

C8_NeverNullOrUndefined ==
    op = "toStringSafe" =>
        /\ ret.t = "string"
        /\ Truthy(args.str) /\ args.str.v # <<>> => ret.v = args.str.v
        /\ ~Truthy(args.str) \/ args.str.v = <<>> =>
              ret = IF args.defValue = Undefined THEN Str(S_empty) ELSE args.defValue

\* an exception is raised inside the try block of toRelativePath
EnvFailure ==
    /\ Truthy(rootPath)
    /\ args.exists
    /\ \/ args.stat = "throws"
       \/ args.stat = "dir" /\ args.path.t # "string"

\* C9: toRelativePath always returns, false or a string; a string only when
\* the root is set, exists, is a directory and the path starts with it; an
\* exception inside gives false and exactly one new log line.
C9_NeverPropagates ==
    op = "toRelativePath" =>
        /\ ret.outcome = "returned"
        /\ ret.value = False \/ ret.value.t = "string"
        /\ ret.value.t = "string" =>
              /\ Truthy(rootPath)
              /\ args.exists
              /\ args.stat = "dir"
              /\ args.path.t = "string"
              /\ Len(args.path.v) >= Len(rootPath.v)
              /\ \A n \in 1..Len(rootPath.v) : args.path.v[n] = rootPath.v[n]
              /\ rootPath.v \o ret.value.v = args.path.v
        /\ EnvFailure =>
              /\ ret.value = False
              /\ Len(console) = Len(consoleAtCall) + 1
              /\ SubSeq(console, 1, Len(consoleAtCall)) = consoleAtCall
              /\ console[Len(console)][1] = "[ERROR] helpers.toRelativePath(): "
        /\ ~EnvFailure => console = consoleAtCall

C9_Witness ==
    /\ op = "toRelativePath"
    /\ args.path = Null
    /\ args.stat = "dir"
    /\ ret.outcome = "returned"
    /\ ret.value = False
    /\ Len(console) = Len(consoleAtCall) + 1

\* the variant of the filter: any matching include entry counts, and the
\* exclude entries are compared with the candidate's own resolved path
RECURSIVE VariantFilter(_, _, _)
VariantFilter(F, incl, excl) ==
    IF F = <<>> THEN <<>>
    ELSE LET x == Head(F)
             keep == \/ Len(incl) = 0
                     \/ /\ \E i \in 1..Len(incl) : Abs(incl[i]) = Abs(x)
                        /\ \A j \in 1..Len(excl) : excl[j] # Abs(x)
         IN  IF keep THEN <<x>> \o VariantFilter(Tail(F), incl, excl)
             ELSE VariantFilter(Tail(F), incl, excl)

Reverse(s) == [i \in 1..Len(s) |-> s[Len(s) + 1 - i]]

WithFiles(items) == [files |-> Arr(items), exclude |-> args.pkg.exclude]

\* C10: with a workspace root, the result equals the variant's result, and
\* reversing or duplicating the include entries does not change it.
C10_FirstMatchIrrelevant ==
    (IsFilterCall /\ RootSet) =>
        /\ ~ret.threw
        /\ ret.value = VariantFilter(args.allFiles, Inc, Exc)
        /\ args.pkg.files.present =>
              LET items == args.pkg.files.items
                  rev == filterFilesByPackage(args.allFiles, WithFiles(Reverse(items)), rootPath)
                  dup == filterFilesByPackage(args.allFiles, WithFiles(items \o items), rootPath)
              IN  /\ ~rev.threw /\ rev.value = ret.value
                  /\ ~dup.threw /\ dup.value = ret.value

C10_Witness ==
    /\ op = "filter"
    /\ RootSet
    /\ Len(Inc) = 2
    /\ Inc[1] # Inc[2]
    /\ Abs(Inc[1]) = Abs(Inc[2])
    /\ \E j \in 1..Len(Exc) : Exc[j] = Inc[1] \/ Exc[j] = Inc[2]
    /\ Len(args.allFiles) = 2
    /\ Abs(args.allFiles[1]) = Abs(Inc[1])
    /\ Len(ret.value) <= 1
====
